---- MODULE Spec2Model ----
(***************************************************************************)
(* everest: the in-memory unit of work (repositories/memory/uow.py) and    *)
(* the entity base class (entities/base.py).                               *)
(*                                                                         *)
(* The heap holds the entity objects of the application and the clones     *)
(* made by register_clean.  Every object has a concrete class, an instance *)
(* __dict__ (attribute name -> value) and, when it is tracked, an          *)
(* EntityStateManager stored under the attribute __everest__.  The unit of *)
(* work is a defaultdict from entity class to a WeakSet of entities.       *)
(*                                                                         *)
(* Entity defines __eq__ and keeps the identity hash of object, so two     *)
(* entities are one element of a WeakSet only when they are one object:    *)
(* the sets are sets of object identities.                                 *)
(***************************************************************************)
EXTENDS Integers, Sequences, FiniteSets, TLC

\* ---------------------------------------------------------------- bounds
\* Object identities available to the application and to clone().
MaxObjects == 3
\* Calls the application makes in one work episode.
MaxCalls == 5
\* Attribute values range over 0..MaxVal; 0 stands for None.
MaxVal == 1

Objects == 1..MaxObjects
Values == 0..MaxVal
\* An attribute that is not in an instance __dict__.
Absent == -1
\* No object (the return value of an operation that returns nothing).
NoObject == 0

\* ------------------------------------------------------- program vocabulary
\* Concrete entity classes; they are also the keys of the entity set map.
Classes == {"Entity", "Widget"}
\* The entity_class=None default of the get_* queries.
NoClass == "None"

OBJECT_STATES == {"CLEAN", "NEW", "DELETED", "DIRTY"}
\* The initial value of EntityStateManager.__state.
NoState == "None"

\* Attribute names of an entity __dict__, in the mapping's enumeration order.
AttrOrder == <<"id", "_cache">>
EntityAttrs == {"id", "_cache"}
\* attr_name.startswith('_') over the attribute names that occur.
startswith_underscore(attr_name) ==
    attr_name \in {"_cache", "_EntityStateManager__obj_ref",
                   "_EntityStateManager__state",
                   "_EntityStateManager__last_state_hash"}

VARIABLES
    heap,            \* the objects that exist
    klass,           \* object -> its concrete class
    dict,            \* object -> its instance __dict__ (without __everest__)
    everest,         \* object -> its __everest__ state manager, if any
    entity_set_map,  \* entity class -> members of its WeakSet (a key the
                     \* defaultdict does not hold yet has the empty set)
    last,            \* the last call made, its arguments and its outcome
    calls            \* the number of calls made so far

vars == <<calls, heap, klass, dict, everest, entity_set_map, last>>

\* ------------------------------------------------------------- the tracker
NoManager == [tracked |-> FALSE, state |-> NoState, last_state_hash |-> 0]

\* hasattr(entity, '__everest__'), as if it never found the attribute.
hasattr_never(e) == FALSE

\* hasattr(entity, '__everest__'), as if it always found the attribute.
hasattr_always(e) == TRUE

\* hasattr(entity, '__everest__')
hasattr_everest(e) == everest[e].tracked

\* EntityStateManager.get_state_data: the public items of a __dict__.
get_state_data(d) ==
    [n \in {m \in DOMAIN d : ~startswith_underscore(m)} |-> d[n]]

\* The __dict__ d of an entity as Python sees it: the attributes that are
\* set (the __everest__ entry is kept in the variable everest).
entity_dict(d) == [n \in {m \in EntityAttrs : d[m] # Absent} |-> d[n]]

\* The __dict__ of the state manager of e: its three private fields.
StateCode(s) ==
    CASE s = NoState -> 0 [] s = "NEW" -> 1 [] s = "CLEAN" -> 2
      [] s = "DIRTY" -> 3 [] s = "DELETED" -> 4
manager_dict(e, mgr) ==
    [n \in {"_EntityStateManager__obj_ref", "_EntityStateManager__state",
            "_EntityStateManager__last_state_hash"} |->
        CASE n = "_EntityStateManager__obj_ref" -> e
          [] n = "_EntityStateManager__state" -> StateCode(mgr.state)
          [] n = "_EntityStateManager__last_state_hash" -> mgr.last_state_hash]

\* '%s:%s' % (k, v) joined by ',': the tokens in enumeration order, each a
\* <<name index, value>> pair.
AllNames == AttrOrder \o <<"_EntityStateManager__obj_ref",
                           "_EntityStateManager__state",
                           "_EntityStateManager__last_state_hash">>
RECURSIVE Tokens(_, _)
Tokens(data, i) ==
    IF i > Len(AllNames) THEN <<>>
    ELSE (IF AllNames[i] \in DOMAIN data
             THEN << <<i, data[AllNames[i]]>> >> ELSE <<>>)
         \o Tokens(data, i + 1)

\* hash() of a string: a polynomial hash over the tokens, modulo HashMod;
\* hash('') = 0.
HashMod == 65536
RECURSIVE hash(_)
hash(s) ==
    IF s = <<>> THEN 0
    ELSE (31 * hash(Tail(s)) + 7 * Head(s)[1] + Head(s)[2] + 11) % HashMod

\* EntityStateManager.__get_state_string, as if it read every attribute of
\* the tracked entity, whose __dict__ is d.
get_state_string_entity(d, e, mgr) == Tokens(entity_dict(d), 1)

\* EntityStateManager.__get_state_string of the manager mgr of entity e, whose
\* __dict__ is d: get_state_data is handed self, the state manager, not the
\* tracked entity.
get_state_string(d, e, mgr) == Tokens(get_state_data(manager_dict(e, mgr)), 1)

\* The transition table, as if it followed the class documentation.
allowed_transitions_doc ==
    {<<NoState, "NEW">>, <<NoState, "CLEAN">>,
     <<"NEW", "DIRTY">>, <<"NEW", "DELETED">>,
     <<"CLEAN", "DIRTY">>, <<"CLEAN", "DELETED">>,
     <<"DIRTY", "CLEAN">>, <<"DIRTY", "DELETED">>}

\* EntityStateManager.__allowed_transitions
allowed_transitions ==
    {<<NoState, "NEW">>, <<NoState, "CLEAN">>,
     <<"NEW", "CLEAN">>, <<"NEW", "DELETED">>,
     <<"CLEAN", "DIRTY">>, <<"CLEAN", "DELETED">>,
     <<"DIRTY", "CLEAN">>, <<"DIRTY", "DELETED">>}

\* EntityStateManager.__get_state
get_state_of(d, e, mgr) ==
    IF mgr.state = "CLEAN"
          /\ hash(get_state_string(d, e, mgr)) # mgr.last_state_hash
       THEN "DIRTY"
       ELSE mgr.state

\* entity.__everest__.state, read now.
get_state(e) == get_state_of(dict[e], e, everest[e])

\* The error message of __set_state as if it named the requested state
\* twice.
message_target_only(e, state) == <<state, state>>

\* The pair in the message of the ValueError __set_state raises:
\* 'Invalid state transition %s -> %s.' % (self.__state, state)
invalid_transition_message(e, state) == <<everest[e].state, state>>

\* EntityStateManager.__set_state, as if it stored the state unchecked.
set_state_unchecked(e, state) == TRUE

\* EntityStateManager.__set_state: TRUE when the assignment does not raise.
set_state_ok(e, state) == <<get_state(e), state>> \in allowed_transitions

\* EntityStateManager.__set_state when it does not raise.
set_state(mgr, state) == [mgr EXCEPT !.state = state]

\* EntityStateManager.__init__
new_manager(d, e) ==
    LET m0 == [tracked |-> TRUE, state |-> NoState, last_state_hash |-> 0]
    IN  [m0 EXCEPT !.last_state_hash = hash(get_state_string(d, e, m0))]

\* EntityStateManager.reset_state as if it only recomputed the baseline and
\* never assigned CLEAN.
reset_state_baseline_only(e) ==
    [everest[e] EXCEPT
       !.last_state_hash = hash(get_state_string(dict[e], e, everest[e]))]

\* EntityStateManager.reset_state when the assignment does not raise.
reset_state(e) ==
    LET m1 == set_state(everest[e], "CLEAN")
    IN  [m1 EXCEPT !.last_state_hash = hash(get_state_string(dict[e], e, m1))]

\* EntityStateManager.track: the manager the entity holds afterwards (the
\* assignments None -> NEW and None -> CLEAN never raise).
track(d, e, state) == set_state(new_manager(d, e), state)

\* ------------------------------------------------------------ bookkeeping
\* msg is the (from, to) pair in the message of an invalid-transition error.
Call(op, c, e, attr, res, ret) ==
    [op |-> op, cls |-> c, ent |-> e, attr |-> attr, res |-> res, ret |-> ret,
     msg |-> <<>>]

\* A call returns (or raises): it is recorded and counted.
Return(call) ==
    /\ calls' = calls + 1
    /\ last' = call

\* The application has calls left in this work episode.
CanCall == calls < MaxCalls

\* self.__entity_set_map[entity_class].add(entity)
set_map_add(c, e) ==
    entity_set_map' = [entity_set_map EXCEPT ![c] = @ \cup {e}]

Init ==
    /\ heap = {}
    /\ klass = [o \in Objects |-> NoClass]
    /\ dict = [o \in Objects |-> [n \in EntityAttrs |-> Absent]]
    /\ everest = [o \in Objects |-> NoManager]
    /\ entity_set_map = [c \in Classes |-> {}]
    /\ last = Call("UnitOfWork", NoClass, NoObject, "", "ok", NoObject)
    /\ calls = 0

\* The values the application assigns: any value to id, a value other than
\* None to _cache.
ValuesOf(attr_name) == IF attr_name = "id" THEN Values ELSE Values \ {0}

\* The lowest identity not in use.
fresh == CHOOSE o \in Objects \ heap : \A p \in Objects \ heap : o <= p

\* Entity.__init__ with id v: the application builds an entity of class c.
Entity_init(c, v) ==
    /\ CanCall
    /\ heap # Objects
    /\ heap' = heap \cup {fresh}
    /\ klass' = [klass EXCEPT ![fresh] = c]
    /\ dict' = [dict EXCEPT ![fresh] = [n \in EntityAttrs |->
                                          IF n = "id" THEN v ELSE Absent]]
    /\ Return(Call("Entity", NoClass, fresh, "", "ok", fresh))
    /\ UNCHANGED <<everest, entity_set_map>>

\* The assignment as if every live entity shared one __dict__.
setattr_shared(e, attr_name, v) ==
    /\ CanCall
    /\ e \in heap
    /\ dict[e][attr_name] # v
    /\ dict' = [o \in Objects |->
                  IF o \in heap THEN [dict[o] EXCEPT ![attr_name] = v]
                                ELSE dict[o]]
    /\ Return(Call("setattr", NoClass, e, attr_name, "ok", NoObject))
    /\ UNCHANGED <<heap, klass, everest, entity_set_map>>

\* The application assigns entity.<attr_name> = v, a value it did not have.
setattr(e, attr_name, v) ==
    /\ CanCall
    /\ e \in heap
    /\ dict[e][attr_name] # v
    /\ dict' = [dict EXCEPT ![e][attr_name] = v]
    /\ Return(Call("setattr", NoClass, e, attr_name, "ok", NoObject))
    /\ UNCHANGED <<heap, klass, everest, entity_set_map>>

\* UnitOfWork.register_new
register_new(c, e) ==
    /\ CanCall
    /\ e \in heap
    /\ IF hasattr_everest(e)
          THEN /\ Return(Call("register_new", c, e, "",
                               "ValueError: already registered", NoObject))
               /\ UNCHANGED <<heap, klass, dict, everest, entity_set_map>>
          ELSE /\ everest' = [everest EXCEPT ![e] = track(dict[e], e, "NEW")]
               /\ set_map_add(c, e)
               /\ Return(Call("register_new", c, e, "", "ok", NoObject))
               /\ UNCHANGED <<heap, klass, dict>>

\* EntityStateManager.clone, as if set_state_data were never called.
clone_without_data(e) == [n \in EntityAttrs |-> Absent]

\* EntityStateManager.clone followed by set_state_data: the __dict__ of the
\* clone of e.
clone(e) ==
    LET data == get_state_data(entity_dict(dict[e]))
    IN  [n \in EntityAttrs |-> IF n \in DOMAIN data THEN data[n] ELSE Absent]

\* UnitOfWork.register_clean
register_clean(c, e) ==
    /\ CanCall
    /\ e \in heap
    /\ heap # Objects
    /\ heap' = heap \cup {fresh}
    /\ klass' = [klass EXCEPT ![fresh] = klass[e]]
    /\ dict' = [dict EXCEPT ![fresh] = clone(e)]
    /\ everest' = [everest EXCEPT ![fresh] = track(clone(e), fresh, "CLEAN")]
    /\ set_map_add(c, e)
    /\ Return(Call("register_clean", c, e, "", "ok", fresh))

\* UnitOfWork.unregister
unregister(c, e) ==
    /\ CanCall
    /\ e \in heap
    /\ IF ~hasattr_everest(e)
          THEN /\ Return(Call("unregister", c, e, "",
                               "ValueError: not registered", NoObject))
               /\ UNCHANGED <<heap, klass, dict, everest, entity_set_map>>
          ELSE \* WeakSet.remove raises KeyError before delattr is reached
               /\ IF e \in entity_set_map[c]
                     THEN /\ entity_set_map' =
                                [entity_set_map EXCEPT ![c] = @ \ {e}]
                          /\ everest' = [everest EXCEPT ![e] = NoManager]
                          /\ Return(Call("unregister", c, e, "",
                                          "ok", NoObject))
                     ELSE /\ Return(Call("unregister", c, e, "",
                                          "KeyError", NoObject))
                          /\ UNCHANGED <<everest, entity_set_map>>
               /\ UNCHANGED <<heap, klass, dict>>

\* The body of the mark_* methods as if the add to the set came before the
\* state assignment.
mark_add_first(op, c, e, state, mgr) ==
    /\ CanCall
    /\ e \in heap
    /\ IF ~hasattr_everest(e)
          THEN /\ Return(Call(op, c, e, "",
                               "ValueError: not registered", NoObject))
               /\ UNCHANGED <<heap, klass, dict, everest, entity_set_map>>
          ELSE IF ~set_state_ok(e, state)
          THEN /\ set_map_add(c, e)
               /\ Return([Call(op, c, e, "",
                                "ValueError: invalid transition", NoObject)
                             EXCEPT !.msg =
                                invalid_transition_message(e, state)])
               /\ UNCHANGED <<heap, klass, dict, everest>>
          ELSE /\ everest' = [everest EXCEPT ![e] = mgr]
               /\ set_map_add(c, e)
               /\ Return(Call(op, c, e, "", "ok", NoObject))
               /\ UNCHANGED <<heap, klass, dict>>

\* The body shared by the mark_* methods: the hasattr test, the state
\* assignment (mgr is the manager after it) and the add to the set.
mark(op, c, e, state, mgr) ==
    /\ CanCall
    /\ e \in heap
    /\ IF ~hasattr_everest(e)
          THEN /\ Return(Call(op, c, e, "",
                               "ValueError: not registered", NoObject))
               /\ UNCHANGED <<heap, klass, dict, everest, entity_set_map>>
          ELSE IF ~set_state_ok(e, state)
          THEN /\ Return([Call(op, c, e, "",
                                "ValueError: invalid transition", NoObject)
                             EXCEPT !.msg =
                                invalid_transition_message(e, state)])
               /\ UNCHANGED <<heap, klass, dict, everest, entity_set_map>>
          ELSE /\ everest' = [everest EXCEPT ![e] = mgr]
               /\ set_map_add(c, e)
               /\ Return(Call(op, c, e, "", "ok", NoObject))
               /\ UNCHANGED <<heap, klass, dict>>

\* UnitOfWork.mark_clean
mark_clean(c, e) == mark("mark_clean", c, e, "CLEAN", reset_state(e))

\* UnitOfWork.mark_deleted
mark_deleted(c, e) ==
    mark("mark_deleted", c, e, "DELETED", set_state(everest[e], "DELETED"))

\* UnitOfWork.mark_dirty
mark_dirty(c, e) ==
    mark("mark_dirty", c, e, "DIRTY", set_state(everest[e], "DIRTY"))

\* UnitOfWork.reset, as if the tracked sets were not cleared.
reset_keeps_sets ==
    /\ CanCall
    /\ Return(Call("reset", NoClass, NoObject, "", "ok", NoObject))
    /\ UNCHANGED <<heap, klass, dict, everest, entity_set_map>>

\* UnitOfWork.reset, as if it also detached the tracking records.
reset_detaches_records ==
    /\ CanCall
    /\ entity_set_map' = [c \in Classes |-> {}]
    /\ everest' = [o \in Objects |-> NoManager]
    /\ Return(Call("reset", NoClass, NoObject, "", "ok", NoObject))
    /\ UNCHANGED <<heap, klass, dict>>

\* UnitOfWork.reset
reset ==
    /\ CanCall
    /\ entity_set_map' = [c \in Classes |-> {}]
    /\ Return(Call("reset", NoClass, NoObject, "", "ok", NoObject))
    /\ UNCHANGED <<heap, klass, dict, everest>>

\* The state property read by the application as if the read stored CLEAN
\* over a state it reports as DIRTY.
state_get_and_clear(e) ==
    /\ CanCall
    /\ e \in heap
    /\ hasattr_everest(e)
    /\ everest' = [everest EXCEPT ![e].state =
                      IF get_state(e) = "DIRTY" THEN "CLEAN" ELSE @]
    /\ Return(Call("state", NoClass, e, "", get_state(e), NoObject))
    /\ UNCHANGED <<heap, klass, dict, entity_set_map>>

\* The property EntityStateManager.state read by the application, on an
\* entity that holds a manager, through
\* entity.__everest__.state; the value read is the result of the call.
state_get(e) ==
    /\ CanCall
    /\ e \in heap
    /\ hasattr_everest(e)
    /\ Return(Call("state", NoClass, e, "", get_state(e), NoObject))
    /\ UNCHANGED <<heap, klass, dict, everest, entity_set_map>>

\* What a collection is recorded as: whether the object was a tracked
\* member of some set of the unit of work.
collected(e) ==
    IF everest[e].tracked /\ \E c \in Classes : e \in entity_set_map[c]
       THEN "tracked member" ELSE "ok"

\* The collection of an entity as if the tracked sets kept its entry.
collect_keeps_entry(e) ==
    /\ CanCall
    /\ e \in heap
    /\ heap' = heap \ {e}
    /\ klass' = [klass EXCEPT ![e] = NoClass]
    /\ dict' = [dict EXCEPT ![e] = [n \in EntityAttrs |-> Absent]]
    /\ everest' = [everest EXCEPT ![e] = NoManager]
    /\ Return(Call("del", NoClass, e, "", collected(e), NoObject))
    /\ UNCHANGED entity_set_map

\* The application drops its last reference to e and e is collected: the
\* WeakSets of the unit of work and the weak reference of the state manager
\* do not keep it alive.  The object goes with its __dict__ and its state
\* manager, each WeakSet discards its entry, and the identity is free to be
\* used again.
collect(e) ==
    /\ CanCall
    /\ e \in heap
    /\ heap' = heap \ {e}
    /\ klass' = [klass EXCEPT ![e] = NoClass]
    /\ dict' = [dict EXCEPT ![e] = [n \in EntityAttrs |-> Absent]]
    /\ everest' = [everest EXCEPT ![e] = NoManager]
    /\ entity_set_map' = [c \in Classes |-> entity_set_map[c] \ {e}]
    /\ Return(Call("del", NoClass, e, "", collected(e), NoObject))

\* ---------------------------------------------------------------- queries
\* The keys __object_iterator walks: every key, or the one asked for.
iterated_keys(ent_cls) == IF ent_cls = NoClass THEN Classes ELSE {ent_cls}

\* ent.__everest__ raises AttributeError for a member without a manager.
raises_AttributeError(keys) ==
    \E k \in keys : \E o \in entity_set_map[k] : ~hasattr_everest(o)

\* UnitOfWork.__object_iterator, run to its end: the outcomes the iteration
\* orders of the dict and of the WeakSets allow.  yielded[o] counts how often
\* o is yielded; raised tells whether the generator ended in AttributeError.
\* A generator that raises has walked some keys whole (before) and a part
\* (part) of the set of the key at which it raises.
object_iterator(state, ent_cls) ==
    LET keys == iterated_keys(ent_cls)
        hit(o, k) == o \in entity_set_map[k] /\ hasattr_everest(o)
                        /\ get_state(o) = state
        count(o, ks) == Cardinality({k \in ks : hit(o, k)})
    IN  IF ~raises_AttributeError(keys)
          THEN {[yielded |-> [o \in Objects |-> count(o, keys)],
                 raised |-> FALSE]}
          ELSE {[yielded |-> [o \in Objects |->
                                 count(o, before)
                                 + (IF o \in part /\ hit(o, kf) THEN 1 ELSE 0)],
                 raised |-> TRUE] :
                   <<kf, before, part>> \in
                     {t \in keys \X (SUBSET keys) \X (SUBSET Objects) :
                        /\ raises_AttributeError({t[1]})
                        /\ t[1] \notin t[2]
                        /\ ~raises_AttributeError(t[2])
                        /\ t[3] \subseteq {o \in entity_set_map[t[1]] :
                                              hasattr_everest(o)}}}

\* UnitOfWork.iterator, run to its end: the (class, entity, state) triples
\* yielded, as a set of outcomes like object_iterator.
iterator_outcomes ==
    LET triples(ks) == {<<k, o, get_state(o)>> :
                          <<k, o>> \in {p \in ks \X Objects :
                                          /\ p[2] \in entity_set_map[p[1]]
                                          /\ hasattr_everest(p[2])}}
    IN  IF ~raises_AttributeError(Classes)
          THEN {[yielded |-> triples(Classes), raised |-> FALSE]}
          ELSE {[yielded |-> triples(before)
                              \cup {t \in triples({kf}) : t[2] \in part},
                 raised |-> TRUE] :
                   <<kf, before, part>> \in
                     {t \in Classes \X (SUBSET Classes) \X (SUBSET Objects) :
                        /\ raises_AttributeError({t[1]})
                        /\ t[1] \notin t[2]
                        /\ ~raises_AttributeError(t[2])
                        /\ t[3] \subseteq {o \in entity_set_map[t[1]] :
                                              hasattr_everest(o)}}}

\* A get_* query consumed to its end, as if each read of a member stored
\* as CLEAN stored DIRTY in its manager.
get_persisting(op, ent_cls) ==
    /\ CanCall
    /\ everest' = [o \in Objects |->
                     IF /\ \E k \in iterated_keys(ent_cls) :
                              o \in entity_set_map[k]
                        /\ everest[o].state = "CLEAN"
                       THEN [everest[o] EXCEPT !.state = "DIRTY"]
                       ELSE everest[o]]
    /\ Return(Call(op, NoClass, NoObject, "",
                    IF raises_AttributeError(iterated_keys(ent_cls))
                       THEN "AttributeError" ELSE "ok", NoObject))
    /\ UNCHANGED <<heap, klass, dict, entity_set_map>>

\* A get_* query consumed to its end.
get(op, ent_cls) ==
    /\ CanCall
    /\ Return(Call(op, NoClass, NoObject, "",
                    IF raises_AttributeError(iterated_keys(ent_cls))
                       THEN "AttributeError" ELSE "ok", NoObject))
    /\ UNCHANGED <<heap, klass, dict, everest, entity_set_map>>

\* UnitOfWork.get_clean
get_clean(ent_cls) == get("get_clean", ent_cls)
\* UnitOfWork.get_new
get_new(ent_cls) == get("get_new", ent_cls)
\* UnitOfWork.get_deleted
get_deleted(ent_cls) == get("get_deleted", ent_cls)
\* UnitOfWork.get_dirty
get_dirty(ent_cls) == get("get_dirty", ent_cls)

\* UnitOfWork.iterator consumed to its end.
iterator ==
    /\ CanCall
    /\ Return(Call("iterator", NoClass, NoObject, "",
                    IF raises_AttributeError(Classes)
                       THEN "AttributeError" ELSE "ok", NoObject))
    /\ UNCHANGED <<heap, klass, dict, everest, entity_set_map>>

\* ---------------------------------------------------------- specification
Next ==
    \/ Entity_init("Widget", 0)
    \/ \E e \in Objects, n \in EntityAttrs :
          \E v \in ValuesOf(n) : setattr(e, n, v)
    \/ \E c \in Classes, e \in Objects : register_new(c, e)
    \/ \E c \in Classes, e \in Objects : register_clean(c, e)
    \/ \E c \in Classes, e \in Objects : unregister(c, e)
    \/ \E c \in Classes, e \in Objects : mark_clean(c, e)
    \/ \E c \in Classes, e \in Objects : mark_deleted(c, e)
    \/ \E c \in Classes, e \in Objects : mark_dirty(c, e)
    \/ \E c \in Classes \cup {NoClass} : get_clean(c)
    \/ \E c \in Classes \cup {NoClass} : get_new(c)
    \/ \E c \in Classes \cup {NoClass} : get_deleted(c)
    \/ \E c \in Classes \cup {NoClass} : get_dirty(c)
    \/ iterator
    \/ reset
    \/ \E e \in Objects : state_get(e)
    \/ \E e \in Objects : collect(e)

Spec == Init /\ [][Next]_vars

\* ------------------------------------------------------- entity equality
\* The entity classes compared: Entity and two classes derived from it.
EqClasses == {"Entity", "Widget", "Gadget"}

\* issubclass(c1, c2) for the classes above.
issubclass(c1, c2) == c1 = c2 \/ c2 = "Entity"

\* isinstance(o, c)
isinstance(o, c) == issubclass(klass[o], c)

\* Entity.__eq__ as if it compared the ids alone.
eq_ids_only(self, other) == dict[self]["id"] = dict[other]["id"]

\* Entity.__eq__
eq(self, other) ==
    isinstance(other, klass[self]) /\ dict[self]["id"] = dict[other]["id"]

\* Entity.__ne__
ne(self, other) == ~eq(self, other)

\* The method the interpreter calls first for a binary comparison: the
\* right operand's when its class is a proper subclass of the left
\* operand's class.  Entity.__eq__ and __ne__ never return NotImplemented,
\* so the first call decides.
reflected(a, b) == klass[a] # klass[b] /\ issubclass(klass[b], klass[a])

\* The expression a == b
eq_operator(a, b) == IF reflected(a, b) THEN eq(b, a) ELSE eq(a, b)

\* The expression a != b
ne_operator(a, b) == IF reflected(a, b) THEN ne(b, a) ELSE ne(a, b)

\* str(bool)
str(b) == IF b THEN "True" ELSE "False"

\* Entities of any of the classes, each built with any id.
InitEq ==
    /\ heap = Objects
    /\ klass \in [Objects -> EqClasses]
    /\ dict \in {[o \in Objects |-> [n \in EntityAttrs |->
                      IF n = "id" THEN ids[o] ELSE Absent]] :
                    ids \in [Objects -> Values]}
    /\ everest = [o \in Objects |-> NoManager]
    /\ entity_set_map = [c \in Classes |-> {}]
    /\ last = Call("UnitOfWork", NoClass, NoObject, "", "ok", NoObject)
    /\ calls = 0

\* The application evaluates a == b.
compare_eq(a, b) ==
    /\ last' = Call("==", NoClass, a, "", str(eq_operator(a, b)), b)
    /\ UNCHANGED <<calls, heap, klass, dict, everest, entity_set_map>>

\* The application evaluates a != b.
compare_ne(a, b) ==
    /\ last' = Call("!=", NoClass, a, "", str(ne_operator(a, b)), b)
    /\ UNCHANGED <<calls, heap, klass, dict, everest, entity_set_map>>

NextEq ==
    \/ \E a, b \in Objects : compare_eq(a, b)
    \/ \E a, b \in Objects : compare_ne(a, b)

SpecEq == InitEq /\ [][NextEq]_vars

\* ==================================================================== claims
MarkOps == {"mark_clean", "mark_dirty", "mark_deleted"}
Tracked(e) == everest[e].tracked
Member(e) == \E c \in Classes : e \in entity_set_map[c]
InvalidTransition == "ValueError: invalid transition"
NotRegistered == "ValueError: not registered"
AlreadyRegistered == "ValueError: already registered"
\* The state a mark_* method asks for.
Requested(op) ==
    CASE op = "mark_clean" -> "CLEAN" [] op = "mark_dirty" -> "DIRTY"
      [] op = "mark_deleted" -> "DELETED"
\* The transitions of the lifecycle table of the specification.
ListedTransitions ==
    {<<"NEW", "CLEAN">>, <<"NEW", "DELETED">>, <<"CLEAN", "DIRTY">>,
     <<"CLEAN", "DELETED">>, <<"DIRTY", "CLEAN">>, <<"DIRTY", "DELETED">>}

\* C1: when a public attribute of an entity whose stored state is CLEAN has
\* just been assigned a different value, a read of its state gives DIRTY and
\* get_dirty() yields it (if it is in a tracked set), with no mark_dirty.
C1_DirtyDetection ==
    (/\ last.op = "setattr"
     /\ ~startswith_underscore(last.attr)
     /\ Tracked(last.ent)
     /\ everest[last.ent].state = "CLEAN")
    => /\ get_state(last.ent) = "DIRTY"
       /\ Member(last.ent) =>
             \A out \in object_iterator("DIRTY", NoClass) :
                 out.yielded[last.ent] >= 1

\* C2: a step that assigns a private attribute of an entity whose state reads
\* CLEAN leaves its state reading CLEAN.
C2_PrivateNeverDirty ==
    [][\A e \in Objects :
         (/\ Tracked(e) /\ get_state(e) = "CLEAN"
          /\ last'.op = "setattr" /\ last'.ent = e
          /\ startswith_underscore(last'.attr))
         => (get_state(e))' = "CLEAN"]_vars

C2_Witness ==
    /\ last.op = "setattr" /\ last.attr = "_cache"
    /\ Tracked(last.ent) /\ get_state(last.ent) = "CLEAN"
    /\ dict[last.ent]["_cache"] = 1

C4_DeletedTerminal ==
    [][\A e \in heap' :
         (Tracked(e) /\ get_state(e) = "DELETED")
         => /\ (last'.op \in MarkOps /\ last'.ent = e)
                 => last'.res = InvalidTransition
            /\ \/ Tracked(e)' /\ (get_state(e))' = "DELETED"
               \/ last'.op = "unregister" /\ last'.ent = e /\ last'.res = "ok"]_vars

C4_Witness ==
    /\ last.op = "mark_dirty" /\ last.res = InvalidTransition
    /\ Tracked(last.ent) /\ get_state(last.ent) = "DELETED"

\* C5: register_new on an entity that holds a tracking record ends in the
\* double-registration error and changes no tracking record, no state and no
\* tracked set.
C5_DoubleRegistration ==
    [][(last'.op = "register_new" /\ Tracked(last'.ent))
       => /\ last'.res = AlreadyRegistered
          /\ UNCHANGED <<heap, klass, dict, everest, entity_set_map>>]_vars

C5_Witness ==
    /\ last.op = "register_new" /\ last.res = AlreadyRegistered
    /\ last.ent \in entity_set_map[last.cls]
    /\ get_state(last.ent) = "NEW"

\* C6: mark_clean, mark_dirty, mark_deleted and unregister on an entity
\* without a tracking record end in the unregistered-entity error, change no
\* tracked set and leave the entity without a tracking record.
C6_UnregisteredEntity ==
    [][(last'.op \in MarkOps \cup {"unregister"} /\ ~Tracked(last'.ent))
       => /\ last'.res = NotRegistered
          /\ ~everest'[last'.ent].tracked
          /\ UNCHANGED <<everest, entity_set_map>>]_vars

C6_Witness ==
    /\ last.op = "unregister" /\ last.res = NotRegistered
    /\ ~Tracked(last.ent)

\* C7: an entity holds a tracking record exactly when it is a member of some
\* tracked set.
C7_RecordIffMember == \A e \in heap : Tracked(e) <=> Member(e)

\* C8: iterator() and the get_* queries never fail, and iterator() yields
\* exactly one triple for each member of each tracked set, with a lifecycle
\* state.
C8_IteratorTotal ==
    /\ \A out \in iterator_outcomes :
          /\ ~out.raised
          /\ \A c \in Classes : \A e \in entity_set_map[c] :
                \E s \in OBJECT_STATES :
                    {t \in out.yielded : t[1] = c /\ t[2] = e} = {<<c, e, s>>}
          /\ \A t \in out.yielded : t[2] \in entity_set_map[t[1]]
    /\ \A s \in OBJECT_STATES, c \in Classes \cup {NoClass} :
          \A out \in object_iterator(s, c) : ~out.raised
    /\ last.op \in {"iterator", "get_new", "get_clean", "get_dirty",
                     "get_deleted"} => last.res = "ok"

\* C9: right after a successful register_new(T, e), get_new() yields e; right
\* after a successful mark_clean(T, e), get_new() does not yield e and
\* get_clean() yields e.
C9_RegisterNewThenQueries ==
    /\ (last.op = "register_new" /\ last.res = "ok")
         => \A out \in object_iterator("NEW", NoClass) :
                out.yielded[last.ent] >= 1
    /\ (last.op = "mark_clean" /\ last.res = "ok")
         => /\ \A out \in object_iterator("NEW", NoClass) :
                   out.yielded[last.ent] = 0
            /\ \A out \in object_iterator("CLEAN", NoClass) :
                   out.yielded[last.ent] >= 1

\* C10: register_clean(T, e) returns a clone that is another object than e,
\* of the same concrete class, with the public attribute values of e and a
\* tracking record whose state reads CLEAN; e, not the clone, is in the
\* type-T tracked set.
C10_RegisterCleanClone ==
    last.op = "register_clean"
    => /\ last.res = "ok"
       /\ last.ret \in heap /\ last.ret # last.ent
       /\ klass[last.ret] = klass[last.ent]
       /\ dict[last.ret]["id"] = dict[last.ent]["id"]
       /\ Tracked(last.ret) /\ get_state(last.ret) = "CLEAN"
       /\ last.ent \in entity_set_map[last.cls]
       /\ ~Member(last.ret)

C10_Witness ==
    /\ last.op = "register_clean"
    /\ dict[last.ent]["id"] = 1 /\ dict[last.ent]["_cache"] = 1
    /\ dict[last.ret]["_cache"] = Absent

\* C11: unregister(T, e) on an entity that holds a tracking record, the
\* clone returned by register_clean included, succeeds; afterwards e is not
\* a member of the type-T set and holds no record.  (A call that ends in
\* "not registered" was made on an entity without a record; a call with a
\* key other than the one e is filed under is left out: the entity of a
\* KeyError here is a member of no set at all.)
C11_UnregisterSucceeds ==
    (/\ last.op = "unregister"
     /\ last.res # NotRegistered
     /\ (last.res = "KeyError" => ~Member(last.ent)))
    => /\ last.res = "ok"
       /\ last.ent \notin entity_set_map[last.cls]
       /\ ~Tracked(last.ent)

\* Every get_* query, with or without a type, and iterator() end without
\* an error and yield nothing (no member makes a query raise, and no outcome
\* of any query raises or yields).
NothingYielded ==
    /\ ~raises_AttributeError(Classes)
    /\ \A out \in iterator_outcomes : ~out.raised /\ out.yielded = {}
    /\ \A s \in OBJECT_STATES, c \in Classes \cup {NoClass} :
          \A out \in object_iterator(s, c) :
             ~out.raised /\ \A o \in Objects : out.yielded[o] = 0

RegisterOps == {"register_new", "register_clean"}

\* C12: after reset(), whatever came before, the four get_* queries and
\* iterator() yield nothing, and they go on yielding nothing over every step
\* that is not a register_* or mark_* call.
C12_ResetEmptiesQueries ==
    /\ [](last.op = "reset" => NothingYielded)
    /\ [][(last'.op \notin RegisterOps \cup MarkOps /\ NothingYielded)
            => NothingYielded']_vars

\* reset() was called while an entity registered as NEW was tracked.
C12_Witness ==
    /\ last.op = "reset"
    /\ \E e \in heap : Tracked(e) /\ get_state(e) = "NEW"

\* C13: two reads of an entity's state in a row, with no other call in
\* between, return the same value.
C13_ReadsIdempotent ==
    [][(last.op = "state" /\ last'.op = "state" /\ last'.ent = last.ent)
         => last'.res = last.res]_vars

\* The state of an entity marked dirty was read and is still read DIRTY.
C13_Witness ==
    /\ last.op = "state" /\ last.res = "DIRTY"
    /\ get_state(last.ent) = "DIRTY"

QueryOps == {"get_clean", "get_new", "get_deleted", "get_dirty", "iterator"}

\* C14: a read does not persist anything: no read of the state property, no
\* get_* query and no iterator() call changes any entity's stored state or
\* baseline fingerprint, or the membership of any tracked set.
C14_ReadsPersistNothing ==
    [][(last'.op \in QueryOps \cup {"state"})
         => UNCHANGED <<everest, entity_set_map>>]_vars

\* get_dirty() was consumed while a tracked set held an entity stored as
\* CLEAN whose id had been assigned.
C14_Witness ==
    /\ last.op = "get_dirty"
    /\ \E e \in heap :
          /\ Tracked(e) /\ Member(e)
          /\ everest[e].state = "CLEAN" /\ dict[e]["id"] = 1

\* C15, as stated: for a tracked entity, reset_state() (through mark_clean)
\* followed at once by a state read returns CLEAN.
C15_ResetThenRead ==
    (last.op = "mark_clean" /\ last.res # NotRegistered)
    => get_state(last.ent) = "CLEAN"

\* C15, amended: the same for a tracked entity whose state is not DELETED
\* (a refused reset leaves the state as it was, so an entity that reads
\* DELETED after an invalid-transition error was DELETED before the call).
C15_ResetThenReadLive ==
    (/\ last.op = "mark_clean" /\ last.res # NotRegistered
     /\ ~(last.res = InvalidTransition /\ get_state(last.ent) = "DELETED"))
    => get_state(last.ent) = "CLEAN"

\* mark_clean succeeded on an entity whose id had been assigned.
C15_Witness ==
    /\ last.op = "mark_clean" /\ last.res = "ok"
    /\ dict[last.ent]["id"] = 1
    /\ get_state(last.ent) = "CLEAN"

\* a and b are of the same concrete type and their ids are equal.
SameTypeAndId(a, b) ==
    klass[a] = klass[b] /\ dict[a]["id"] = dict[b]["id"]

\* C16: a == b holds exactly when a and b are of the same concrete type and
\* have equal ids, whatever the argument order (an instance of a subclass
\* or superclass with the same id is not equal), and a != b is the negation
\* of a == b.
C16_EntityEquality ==
    /\ last.op = "==" =>
          (last.res = "True" <=> SameTypeAndId(last.ent, last.ret))
    /\ last.op = "!=" =>
          (last.res = "True" <=> ~SameTypeAndId(last.ent, last.ret))

\* An Entity was compared with an instance of its subclass Widget that has
\* the same id, the superclass instance on the left.
C16_Witness ==
    /\ last.op = "==" /\ last.res = "False"
    /\ klass[last.ent] = "Entity" /\ klass[last.ret] = "Widget"
    /\ dict[last.ent]["id"] = dict[last.ret]["id"]

\* The transitions the documentation of EntityStateManager lists.
DocumentedTransitions ==
    {<<"CLEAN", "DIRTY">>, <<"CLEAN", "DELETED">>, <<"NEW", "DIRTY">>,
     <<"NEW", "DELETED">>, <<"DIRTY", "DELETED">>, <<"DIRTY", "CLEAN">>}

\* C17: the transitions accepted for a tracked entity are exactly the ones
\* the class documentation lists; in particular mark_dirty on an entity
\* that reads NEW is not refused (a refused call leaves the state as it
\* was) and leaves it reading DIRTY.
C17_DocumentedTable ==
    /\ \A e \in heap, to \in OBJECT_STATES :
          Tracked(e) => (set_state_ok(e, to)
                           <=> <<get_state(e), to>> \in DocumentedTransitions)
    /\ (last.op = "mark_dirty" /\ last.res = InvalidTransition)
          => get_state(last.ent) # "NEW"
    /\ (last.op = "mark_dirty" /\ last.res = "ok")
          => get_state(last.ent) = "DIRTY"

\* C18: every invalid-transition error carries the attempted pair: the
\* state a read of the entity reports (the refused call left it as it was)
\* and the state requested.
C18_ErrorCarriesPair ==
    last.res = InvalidTransition
    => last.msg = <<get_state(last.ent), Requested(last.op)>>

\* mark_clean was refused on an entity that reads DELETED.
C18_Witness ==
    /\ last.op = "mark_clean" /\ last.res = InvalidTransition
    /\ get_state(last.ent) = "DELETED"
    /\ last.msg = <<"DELETED", "CLEAN">>

\* The lifecycle state observed for an entity: the state a read reports, or
\* NoState for an entity without a tracking record.
Observed(e) == IF Tracked(e) THEN get_state(e) ELSE NoState

C20_FailedMarkChangesNothing ==
    [][(last'.op \in MarkOps /\ last'.res = InvalidTransition)
         => UNCHANGED <<everest, entity_set_map>>]_vars

\* A mark_* call under a type the entity is not filed under was refused,
\* and the entity is still filed only under its own type.
C20_Witness ==
    /\ last.op \in MarkOps /\ last.res = InvalidTransition
    /\ Member(last.ent)
    /\ last.ent \notin entity_set_map[last.cls]

\* The entities a commit marks clean: the outcomes of get_new() followed by
\* get_dirty(), both consumed to their end.
CommitQueries == object_iterator("NEW", NoClass)
                    \cup object_iterator("DIRTY", NoClass)

\* C21: in every reachable state get_new() and get_dirty() end without an
\* error, and for each entity they yield mark_clean is accepted and leaves
\* the entity reading CLEAN (so that it is no longer NEW or DIRTY and, being
\* a member, is one of the CLEAN entities).
C21_CommitCycle ==
    \A out \in CommitQueries :
       /\ ~out.raised
       /\ \A e \in Objects :
             out.yielded[e] > 0 =>
                /\ set_state_ok(e, "CLEAN")
                /\ get_state_of(dict[e], e, reset_state(e)) = "CLEAN"

\* No tracked set holds a member without a tracking record.
NoUntrackedMember ==
    \A c \in Classes : \A o \in entity_set_map[c] : Tracked(o)

\* The members of the tracked sets of the given keys.
MembersOf(keys) == UNION {entity_set_map[k] : k \in keys}

\* C22: for each state S, get_S(T) yields exactly the members of the type-T
\* tracked set whose current state is S, and get_S() exactly the members of
\* all tracked sets whose current state is S.
C22_QueryResult ==
    \A s \in OBJECT_STATES, c \in Classes \cup {NoClass} :
       \A out \in object_iterator(s, c) :
          /\ ~out.raised
          /\ \A o \in Objects :
                out.yielded[o] > 0
                <=> /\ o \in MembersOf(iterated_keys(c))
                    /\ Tracked(o) /\ get_state(o) = s

\* C23: an entity that was registered keeps its tracking record over
\* reset() and over every other step but its own unregister, and
\* register_new on an entity that holds a record and is a member of no
\* tracked set (as every registered entity is after reset()) ends in the
\* double-registration error and files it under no type.
C23_ResetKeepsRecords ==
    [][/\ \A e \in heap' :
             (Tracked(e) /\ ~(last'.op = "unregister" /\ last'.ent = e))
             => everest'[e].tracked
       /\ (last'.op = "register_new" /\ Tracked(last'.ent)
             /\ ~Member(last'.ent))
             => /\ last'.res = AlreadyRegistered
                /\ \A c \in Classes : last'.ent \notin entity_set_map'[c]]_vars

\* register_new was refused for an entity registered as NEW before a
\* reset(): it reads NEW and no tracked set has a member.
C23_Witness ==
    /\ last.op = "register_new" /\ last.res = AlreadyRegistered
    /\ get_state(last.ent) = "NEW"
    /\ \A c \in Classes : entity_set_map[c] = {}

\* C24: each tracked entity is a member of the tracked set of at most one
\* type, and get_*() without a type and iterator() yield each entity at most
\* once.
C24_OneTypeSet ==
    /\ \A e \in heap :
          Tracked(e) => Cardinality({c \in Classes :
                                        e \in entity_set_map[c]}) <= 1
    /\ \A s \in OBJECT_STATES : \A out \in object_iterator(s, NoClass) :
          \A o \in Objects : out.yielded[o] <= 1
    /\ \A out \in iterator_outcomes : \A o \in Objects :
          Cardinality({t \in out.yielded : t[2] = o}) <= 1

\* C25: when an entity is collected, its entry leaves every tracked set
\* without an unregister call, no get_* query and no iterator() call yields
\* it afterwards, and the membership, the tracking record and the state of
\* every other entity are as before.
C25_CollectedEntryVanishes ==
    /\ [][last'.op = "del" =>
            /\ \A c \in Classes :
                  entity_set_map'[c] = entity_set_map[c] \ {last'.ent}
            /\ \A o \in Objects \ {last'.ent} :
                  everest'[o] = everest[o] /\ Observed(o)' = Observed(o)]_vars
    /\ [](last.op = "del" =>
            /\ \A s \in OBJECT_STATES, c \in Classes \cup {NoClass} :
                  \A out \in object_iterator(s, c) :
                     out.yielded[last.ent] = 0
            /\ \A out \in iterator_outcomes :
                  \A t \in out.yielded : t[2] # last.ent)

\* A tracked member of a set was collected while another tracked member
\* stayed.
C25_Witness ==
    /\ last.op = "del" /\ last.res = "tracked member"
    /\ last.ent \notin heap
    /\ \E o \in heap : Tracked(o) /\ Member(o)

\* C26: an assignment to an attribute of one entity, a clone returned by
\* register_clean included, changes no attribute value, tracking record or
\* state of any other entity, and register_clean(T, w) leaves the attributes
\* of w and any tracking record w holds as they were.
C26_CloneIndependence ==
    [][/\ last'.op = "setattr" =>
             \A o \in Objects \ {last'.ent} :
                /\ dict'[o] = dict[o]
                /\ everest'[o] = everest[o]
                /\ Observed(o)' = Observed(o)
       /\ last'.op = "register_clean" =>
             /\ dict'[last'.ent] = dict[last'.ent]
             /\ everest'[last'.ent] = everest[last'.ent]]_vars

\* The id of a clone (tracked, filed under no type) was assigned while the
\* entity it was cloned from (filed without a record) has another id.
C26_Witness ==
    /\ last.op = "setattr" /\ last.attr = "id"
    /\ Tracked(last.ent) /\ ~Member(last.ent)
    /\ \E w \in heap \ {last.ent} :
          /\ Member(w) /\ ~Tracked(w)
          /\ klass[w] = klass[last.ent]
          /\ dict[w]["id"] # dict[last.ent]["id"]

====
